---------------------------- MODULE Spec2Model ----------------------------
(***************************************************************************)
(* Fraud Risk Scoring Engine of server/ml/fraud_prediction.py.             *)
(*                                                                         *)
(* Numbers.  Python floats are modelled by exact arithmetic:               *)
(*   - a quotient computed by the code (z-score, ratios, bounce rate) is   *)
(*     kept as a fraction [n |-> numerator, d |-> denominator], d > 0,     *)
(*     and compared with the code's thresholds by cross-multiplication;    *)
(*   - a rule score is kept in hundredths of a point (score100), the       *)
(*     final score and the caps in tenths of a point (score10), the        *)
(*     confidence in hundredths (conf100), the raw anomaly estimate of the *)
(*     external model in hundredths (raw100).                              *)
(* round(x, 1) is modelled on the exact decimal value, with ties going to  *)
(* the even tenth (Python's documented rule for round()).                  *)
(*                                                                         *)
(* Optional values (None in the code) are <<>>, a present value v is <<v>>.*)
(***************************************************************************)
EXTENDS Integers, Sequences, FiniteSets, TLC

VARIABLES
    modelFile,      \* anomaly_model.pkl on disk: "absent", "ok", "corrupt"
    scalerFile,     \* anomaly_scaler.pkl on disk
    metadataFile,   \* anomaly_metadata.pkl on disk
    cache,          \* the module globals _model, _scaler, _metadata
    req,            \* the evaluation request being served, with what its
                    \* collaborators answer (profile, history, clock, raw)
    res,            \* locals and ScoreResult of the latest predict_fraud
    prev,           \* the result of the evaluation before it, when that one
                    \* served the same request
    ruleA,          \* a direct compute_rule_based_score call
    ruleB,          \* a second call on a vector that differs in one feature
    out,            \* what an entry point of main() handed to its caller
    pc,             \* per thread: where it is in load_model / predict_fraud
    local,          \* per thread: the (model, scaler, metadata) it works with
    feat,           \* a direct compute_features_for_cheque call
    adapt           \* raw anomaly estimates and what the adapter made of them

vars == <<modelFile, scalerFile, metadataFile, cache, req, res, prev, ruleA, ruleB,
          out, pc, local, feat, adapt>>

-----------------------------------------------------------------------------
(* Optional values and small helpers *)

None == <<>>

Some(v) == <<v>>

IsNone(x) == x = <<>>

Val(x) == x[1]

\* Python truthiness of an optional number: None and 0 are falsy.
Truthy(x) == x # <<>> /\ x[1] # 0

\* Python "x or dflt" on an optional number.
OrElse(x, dflt) == IF Truthy(x) THEN x[1] ELSE dflt

Min(a, b) == IF a <= b THEN a ELSE b

Max(a, b) == IF a >= b THEN a ELSE b

Abs(a) == IF a < 0 THEN 0 - a ELSE a

Rat(n, d) == [n |-> n, d |-> d]

\* r > a/b, r >= a/b, r < a/b, r <= a/b for a fraction r and b > 0
RGt(r, a, b) == r.n * b > a * r.d

RGe(r, a, b) == r.n * b >= a * r.d

RLt(r, a, b) == r.n * b < a * r.d

RLe(r, a, b) == r.n * b <= a * r.d

RAbs(r) == Rat(Abs(r.n), r.d)

REq(r, s) == r.n * s.d = s.n * r.d

-----------------------------------------------------------------------------
(* MODEL LOADING *)

NoHandle == [model |-> "None", scaler |-> "None", metadata |-> "None"]

\* load_model(): what it returns (ret) and what it leaves in the globals
\* (cache).  joblib.load of a corrupt file raises; the assignments made
\* before the raise stay in the globals.
load_model(c, mf, sf, mdf) ==
    IF c.model # "None"
    THEN [ret |-> c, cache |-> c]
    ELSE IF mf = "absent"
    THEN [ret |-> NoHandle, cache |-> c]
    ELSE IF mf = "corrupt"
    THEN [ret |-> NoHandle, cache |-> c]
    ELSE LET c1 == [c EXCEPT !.model = "loaded"] IN
         IF sf = "corrupt"
         THEN [ret |-> NoHandle, cache |-> c1]
         ELSE LET c2 == [c1 EXCEPT !.scaler = IF sf = "ok" THEN "loaded" ELSE "None"] IN
              IF mdf = "corrupt"
              THEN [ret |-> NoHandle, cache |-> c2]
              ELSE LET c3 == [c2 EXCEPT !.metadata =
                                  IF mdf = "ok" THEN "loaded" ELSE "empty"] IN
                   [ret |-> c3, cache |-> c3]

is_model_available(c, mf, sf, mdf) == load_model(c, mf, sf, mdf).ret.model # "None"

-----------------------------------------------------------------------------
(* FEATURE COMPUTATION *)

FEATURE_COLUMNS ==
    << "amount_zscore", "amount_to_max_ratio", "amount_to_balance_ratio", "is_above_max",
       "is_new_payee", "payee_frequency", "unique_payee_ratio",
       "hour_of_day", "day_of_week", "is_unusual_hour", "is_weekend", "is_night_transaction",
       "txn_count_24h", "txn_count_7d", "days_since_last_txn", "is_dormant",
       "account_age_days", "bounce_rate", "avg_balance",
       "signature_score" >>

\* amount = float(cheque_data.get('amountDigits') or 0); 0 becomes 10000
ChequeAmount(cheque) ==
    LET a == OrElse(cheque.amountDigits, 0) IN IF a = 0 THEN 10000 ELSE a

\* balance = float(profile.get('balance') or 100000) if profile else 100000
ProfileBalance(profile) ==
    IF IsNone(profile) THEN 100000 ELSE OrElse(Val(profile).balance, 100000)

\* receiver names of the history items that carry one
PastReceivers(txns) ==
    SelectSeq([i \in 1..Len(txns) |-> txns[i].receiver_name], LAMBDA r : r # "")

SeqCount(s, x) == Cardinality({i \in 1..Len(s) : s[i] = x})

SeqRange(s) == {s[i] : i \in 1..Len(s)}

\* the history items whose created_at is present
Timed(txns) == SelectSeq(txns, LAMBDA t : t.created_at.kind # "none")

\* datetime.fromisoformat raises on a malformed created_at string
FeaturesRaise(txns) == \E i \in 1..Len(txns) : txns[i].created_at.kind = "bad"

MinAge(txns) ==
    CHOOSE a \in {txns[i].created_at.ageH : i \in 1..Len(txns)} :
        \A j \in 1..Len(txns) : a <= txns[j].created_at.ageH

\* dt.weekday(): the cheque's date under one of the two formats, else now
ChequeWeekday(cheque, nowDow) ==
    IF cheque.date.kind \in {"iso", "dmy"} THEN cheque.date.dow ELSE nowDow

\* mutant of AmountToMaxRatio: 0, not 1, for a max that is not positive
AmountToMaxRatioZero(amount, profile) ==
    LET p       == Val(profile)
        max_amt == OrElse(p.max_transaction_amt, amount)
    IN IF ~IsNone(profile) /\ Truthy(p.stddev_transaction_amt)
       THEN (IF max_amt > 0 THEN Rat(amount, max_amt) ELSE Rat(0, 1))
       ELSE Rat(1, 1)

\* features['amount_to_max_ratio']: max_amt = float(max or amount);
\* amount / max_amt if max_amt > 0 else 1; 1 without a truthy stddev
AmountToMaxRatio(amount, profile) ==
    LET p       == Val(profile)
        max_amt == OrElse(p.max_transaction_amt, amount)
    IN IF ~IsNone(profile) /\ Truthy(p.stddev_transaction_amt)
       THEN (IF max_amt > 0 THEN Rat(amount, max_amt) ELSE Rat(1, 1))
       ELSE Rat(1, 1)

compute_features_for_cheque(cheque, profile, recent_txns, signature_score, hour, nowDow) ==
    LET amount  == ChequeAmount(cheque)
        hasP    == ~IsNone(profile)
        p       == Val(profile)
        stats   == hasP /\ Truthy(p.stddev_transaction_amt)
        avg_amt == OrElse(p.avg_transaction_amt, 0)
        std_amt == OrElse(p.stddev_transaction_amt, 1)
        balance == ProfileBalance(profile)
        payee   == IF IsNone(cheque.payeeName) THEN "" ELSE Val(cheque.payeeName)
        past    == PastReceivers(recent_txns)
        dow     == ChequeWeekday(cheque, nowDow)
        timed   == Timed(recent_txns)
        since   == IF Len(timed) > 0 THEN MinAge(timed) \div 24 ELSE 0
    IN
    [ amount_zscore |->
          IF stats /\ std_amt > 0 THEN Rat(amount - avg_amt, std_amt) ELSE Rat(0, 1),
      amount_to_max_ratio |-> AmountToMaxRatio(amount, profile),
      amount_to_balance_ratio |->
          IF balance > 0 THEN Rat(amount, balance) ELSE Rat(10, 1),
      is_above_max |->
          IF hasP /\ Truthy(p.max_transaction_amt)
          THEN (IF amount > Val(p.max_transaction_amt) THEN 1 ELSE 0)
          ELSE 0,
      is_new_payee |->
          IF Len(recent_txns) > 0
          THEN (IF payee # "" /\ payee \in SeqRange(past) THEN 0 ELSE 1)
          ELSE 1,
      payee_frequency |->
          IF Len(recent_txns) > 0 /\ payee # "" THEN SeqCount(past, payee) ELSE 0,
      unique_payee_ratio |->
          IF Len(recent_txns) > 0 /\ Len(past) > 0
          THEN Rat(Cardinality(SeqRange(past)), Len(past))
          ELSE Rat(1, 1),
      hour_of_day |-> hour,
      day_of_week |-> dow,
      is_weekend |-> IF dow >= 5 THEN 1 ELSE 0,
      is_night_transaction |-> IF hour < 6 \/ hour > 21 THEN 1 ELSE 0,
      is_unusual_hour |->
          IF hasP /\ ~IsNone(p.usual_hours) /\ Val(p.usual_hours) # {}
          THEN (IF hour \in Val(p.usual_hours) THEN 0 ELSE 1)
          ELSE (IF 9 <= hour /\ hour <= 17 THEN 0 ELSE 1),
      txn_count_24h |->
          Cardinality({i \in 1..Len(timed) : timed[i].created_at.ageH <= 24}),
      txn_count_7d |->
          Cardinality({i \in 1..Len(timed) : timed[i].created_at.ageH \div 24 <= 7}),
      days_since_last_txn |-> since,
      is_dormant |-> IF Len(recent_txns) > 0 /\ since > 90 THEN 1 ELSE 0,
      account_age_days |->
          IF hasP /\ ~IsNone(p.account_age) THEN Val(p.account_age) ELSE 365,
      bounce_rate |->
          IF hasP /\ ~IsNone(p.bounce_rate) THEN Rat(Val(p.bounce_rate), 100) ELSE Rat(0, 1),
      avg_balance |-> balance,
      signature_score |-> signature_score,
      \* compute_features_for_cheque never stores a 'payee_name' key
      payee_name |-> None ]

-----------------------------------------------------------------------------
(* RULE-BASED SCORING SYSTEM *)

Trigger(rule, points) == [rule |-> rule, points |-> points]

\* mutant of AmountRule: the tiers tested from the lowest up
AmountRuleLowestFirst(f) ==
    LET z == RAbs(f.amount_zscore) IN
    IF RGt(z, 2, 1) THEN << Trigger("moderate_amount", 5) >>
    ELSE IF RGt(z, 3, 1) THEN << Trigger("high_amount", 10) >>
    ELSE IF RGt(z, 5, 1) THEN << Trigger("very_high_amount", 18) >>
    ELSE IF RGt(z, 10, 1) THEN << Trigger("extreme_amount", 25) >>
    ELSE << >>

\* 1. Amount anomaly, on abs(amount_zscore)
AmountRule(f) ==
    LET z == RAbs(f.amount_zscore) IN
    IF RGt(z, 10, 1) THEN << Trigger("extreme_amount", 25) >>
    ELSE IF RGt(z, 5, 1) THEN << Trigger("very_high_amount", 18) >>
    ELSE IF RGt(z, 3, 1) THEN << Trigger("high_amount", 10) >>
    ELSE IF RGt(z, 2, 1) THEN << Trigger("moderate_amount", 5) >>
    ELSE << >>

\* mutant of BalanceRule: the second tier tested with "if" instead of "elif"
BalanceRuleBothTiers(f) ==
    (IF RGt(f.amount_to_balance_ratio, 1, 1) THEN << Trigger("exceeds_balance", 15) >>
     ELSE << >>)
    \o (IF RGt(f.amount_to_balance_ratio, 9, 10) THEN << Trigger("high_balance_usage", 8) >>
        ELSE << >>)

\* 2. Balance ratio
BalanceRule(f) ==
    IF RGt(f.amount_to_balance_ratio, 1, 1) THEN << Trigger("exceeds_balance", 15) >>
    ELSE IF RGt(f.amount_to_balance_ratio, 9, 10) THEN << Trigger("high_balance_usage", 8) >>
    ELSE << >>

\* 3. Exceeds historical max
MaxRule(f) ==
    IF f.is_above_max = 1
    THEN (IF RGt(f.amount_to_max_ratio, 2, 1) THEN << Trigger("exceeds_max", 10) >>
          ELSE IF RGt(f.amount_to_max_ratio, 3, 2) THEN << Trigger("above_max", 5) >>
          ELSE << >>)
    ELSE << >>

\* 4. New payee: str(features.get('payee_name', '')).lower() against the aliases
NewPayeeRule(f) ==
    LET payee_name == IF IsNone(f.payee_name) THEN "" ELSE Val(f.payee_name) IN
    IF f.is_new_payee = 1 /\ payee_name \notin {"self", "cash", "self withdrawal", ""}
    THEN << Trigger("new_payee", 3) >>
    ELSE << >>

\* 5. Account age
AgeRule(f) ==
    IF f.account_age_days < 14 THEN << Trigger("very_new_account", 5) >>
    ELSE IF f.account_age_days < 30 THEN << Trigger("new_account", 2) >>
    ELSE << >>

\* 6. Unusual time
NightRule(f) ==
    IF f.is_night_transaction = 1 THEN << Trigger("night_transaction", 4) >> ELSE << >>

\* 7. Dormant account
DormantRule(f) ==
    IF f.is_dormant = 1
    THEN (IF f.days_since_last_txn > 180 THEN << Trigger("long_dormant", 8) >>
          ELSE IF f.days_since_last_txn > 90 THEN << Trigger("dormant_account", 4) >>
          ELSE << >>)
    ELSE << >>

\* mutant of SignatureRule: the points of the two lowest tiers exchanged
SignatureRuleSwapped(f) ==
    IF f.signature_score < 40 THEN << Trigger("signature_mismatch", 12) >>
    ELSE IF f.signature_score < 60 THEN << Trigger("low_signature_confidence", 20) >>
    ELSE IF f.signature_score < 70 THEN << Trigger("moderate_signature_confidence", 5) >>
    ELSE << >>

\* 8. Signature score
SignatureRule(f) ==
    IF f.signature_score < 40 THEN << Trigger("signature_mismatch", 20) >>
    ELSE IF f.signature_score < 60 THEN << Trigger("low_signature_confidence", 12) >>
    ELSE IF f.signature_score < 70 THEN << Trigger("moderate_signature_confidence", 5) >>
    ELSE << >>

\* 9. Bounce history
BounceRule(f) ==
    IF RGt(f.bounce_rate, 15, 100) THEN << Trigger("high_bounce_rate", 10) >>
    ELSE IF RGt(f.bounce_rate, 8, 100) THEN << Trigger("moderate_bounce_rate", 5) >>
    ELSE << >>

TriggeredRules(f) ==
    AmountRule(f) \o BalanceRule(f) \o MaxRule(f) \o NewPayeeRule(f) \o AgeRule(f)
        \o NightRule(f) \o DormantRule(f) \o SignatureRule(f) \o BounceRule(f)

RECURSIVE SumPoints(_)
SumPoints(ts) == IF ts = << >> THEN 0 ELSE Head(ts).points + SumPoints(Tail(ts))

\* mutant of TrustDiscount: the discounts granted whether or not the caller
\* passed a profile
TrustDiscountAlways(f, profile) ==
    LET bounce == IF f.bounce_rate.n = 0 THEN 5 ELSE 0
        age    == IF f.account_age_days > 180 THEN 5
                  ELSE IF f.account_age_days > 60 THEN 3 ELSE 0
        sig    == IF f.signature_score >= 80 THEN 5
                  ELSE IF f.signature_score >= 70 THEN 3 ELSE 0
    IN Min(bounce + age + sig, 15)

\* the trust discount in percent; profile is the caller's optional profile
TrustDiscount(f, profile) ==
    LET bounce == IF f.bounce_rate.n = 0 THEN 5 ELSE 0
        age    == IF f.account_age_days > 180 THEN 5
                  ELSE IF f.account_age_days > 60 THEN 3 ELSE 0
        sig    == IF f.signature_score >= 80 THEN 5
                  ELSE IF f.signature_score >= 70 THEN 3 ELSE 0
    IN IF IsNone(profile) THEN 0 ELSE Min(bounce + age + sig, 15)

\* mutant of Discounted: the discount taken as a fraction although it is
\* held in percent, and the lower clamp left out
DiscountedPercentAsFraction(score, discount) ==
    Min(10000, Min(100, score) * 100 * (1 - discount))

\* normalise the point sum, apply the discount, clamp; in hundredths of a point
Discounted(score, discount) ==
    Max(0, Min(10000, Min(100, score) * (100 - discount)))

compute_rule_based_score(f, profile) ==
    LET triggered_rules == TriggeredRules(f)
        score           == SumPoints(triggered_rules)
    IN [ score100        |-> Discounted(score, TrustDiscount(f, profile)),
         points          |-> score,
         discount        |-> TrustDiscount(f, profile),
         triggered_rules |-> triggered_rules ]

\* round(x, 1) of a non-negative value in hundredths, giving tenths
Round1(v100) ==
    LET q == v100 \div 10
        r == v100 % 10
    IN IF r > 5 \/ (r = 5 /\ q % 2 = 1) THEN q + 1 ELSE q

\* mutant of normalize_score: round(normalized) to a whole point
normalize_score_whole(score100) ==
    LET v == Max(0, Min(10000, score100)) IN ((v + 50) \div 100) * 10

\* normalize_score: clamp to [0, 100] and round to one decimal (tenths)
normalize_score(score100) == Round1(Max(0, Min(10000, score100)))

\* mutant of compute_confidence_score: the amount test written "> 0"
compute_confidence_score_positive(f, triggered_rules) ==
    Min(99, 75 + (IF f.amount_zscore.n > 0 THEN 5 ELSE 0)
               + (IF f.account_age_days > 0 THEN 5 ELSE 0)
               + (IF f.signature_score > 0 THEN 8 ELSE 0)
               + (IF Len(triggered_rules) > 0 THEN 2 ELSE 0))

\* compute_confidence_score, in hundredths
compute_confidence_score(f, triggered_rules) ==
    Min(99, 75 + (IF f.amount_zscore.n # 0 THEN 5 ELSE 0)
               + (IF f.account_age_days > 0 THEN 5 ELSE 0)
               + (IF f.signature_score > 0 THEN 8 ELSE 0)
               + (IF Len(triggered_rules) > 0 THEN 2 ELSE 0))

-----------------------------------------------------------------------------
(* PREDICTION FUNCTION *)

SeqIf(cond, x) == IF cond THEN << x >> ELSE << >>

\* the profile predict_fraud works with: fetched only for a request that
\* names an account
FetchedProfile(r) ==
    IF IsNone(r.cheque.accountNumber) THEN None ELSE r.dbProfile

\* the history predict_fraud works with: fetched only when the profile
\* carries an account_id
FetchedHistory(r) ==
    LET profile == FetchedProfile(r) IN
    IF ~IsNone(profile) /\ Truthy(Val(profile).account_id) THEN r.dbHistory ELSE << >>

\* mutant of MlFraudScore: the lower clamp left out
MlFraudScoreNoFloor(raw100) == Min(100, 50 - raw100)

\* anomaly_score = max(0, min(1, 0.5 - raw_score)); ml_fraud_score = anomaly_score * 100
MlFraudScore(raw100) == Max(0, Min(100, 50 - raw100))

\* predict_anomaly_score of the training script: the same conversion, kept
\* on the 0-1 scale (here in hundredths)
predict_anomaly_score(raw100) == Max(0, Min(100, 50 - raw100))

\* mutant of Blend: the larger of the two scores
BlendMax(ml_fraud_score, rule_score100) == Max(ml_fraud_score * 70, rule_score100)

\* mutant of Blend: the two scores averaged
BlendAverage(ml_fraud_score, rule_score100) == (ml_fraud_score * 70 + rule_score100) \div 2

\* blended_score = min(ml_fraud_score * 0.7, rule_score), in hundredths
Blend(ml_fraud_score, rule_score100) == Min(ml_fraud_score * 70, rule_score100)

\* mutant of CapScore: the first cap at 55 instead of 45
CapScoreAt55(final10, f, profile) ==
    IF ~IsNone(profile) /\ f.signature_score >= 70
    THEN (IF f.bounce_rate.n = 0 /\ f.account_age_days > 60
          THEN Min(Min(final10, 550), 350)
          ELSE Min(final10, 550))
    ELSE final10

\* mutant of CapScore: the signature test strict (> 70)
CapScoreStrict(final10, f, profile) ==
    IF ~IsNone(profile) /\ f.signature_score > 70
    THEN (IF f.bounce_rate.n = 0 /\ f.account_age_days > 60
          THEN Min(Min(final10, 450), 350)
          ELSE Min(final10, 450))
    ELSE final10

\* the caps for transactions with good indicators, on a score in tenths
CapScore(final10, f, profile) ==
    IF ~IsNone(profile) /\ f.signature_score >= 70
    THEN (IF f.bounce_rate.n = 0 /\ f.account_age_days > 60
          THEN Min(Min(final10, 450), 350)
          ELSE Min(final10, 450))
    ELSE final10

\* final bounds check and round(final_score, 1), on a score in tenths
FinalBounds(final10) == Max(0, Min(1000, final10))

\* mutant of RiskLevel: the thresholds strict (> 70, > 50, > 30)
RiskLevelStrict(final10) ==
    IF final10 > 700 THEN "critical"
    ELSE IF final10 > 500 THEN "high"
    ELSE IF final10 > 300 THEN "medium"
    ELSE "low"

RiskLevel(final10) ==
    IF final10 >= 700 THEN "critical"
    ELSE IF final10 >= 500 THEN "high"
    ELSE IF final10 >= 300 THEN "medium"
    ELSE "low"

Decision(final10) ==
    IF final10 >= 700 THEN "reject"
    ELSE IF final10 >= 500 THEN "review"
    ELSE IF final10 >= 300 THEN "review"
    ELSE "approve"

\* the explanation templates, by the condition that emits them
ExplanationText(id) ==
    CASE id = "amount"    -> "Amount is unusual ({zscore} standard deviations from customer's average)"
      [] id = "new_payee" -> "First transaction to this payee (new payee: {payeeName})"
      [] id = "avg_ratio" -> "Amount ({amount}) is {ratio}x customer's average ({avg_amt})"
      [] id = "night"     -> "Transaction processed at unusual hour ({hour_of_day}:00)"
      [] id = "velocity"  -> "High velocity: {txn_count_24h} transactions in last 24 hours"
      [] id = "dormant"   -> "Account was dormant for {days_since_last_txn} days before this transaction"
      [] id = "signature" -> "Low signature verification confidence ({signature_score}%)"
      [] id = "balance"   -> "Transaction is {ratio}% of account balance ({balance})"
      [] id = "above_max" -> "Amount exceeds historical maximum ({max_amt})"
      [] id = "bounce"    -> "Account has {bounce_rate}% cheque bounce rate"
      [] id = "weekend"   -> "Transaction on weekend"
      [] id = "normal"    -> "Transaction appears normal - no anomalies detected"

\* mutant of Explanations: the default line closes every list
ExplanationsAlwaysDefault(cheque, profile, f) ==
    LET amount  == OrElse(cheque.amountDigits, 0)
        avg_amt == IF IsNone(profile) THEN 0 ELSE OrElse(Val(profile).avg_transaction_amt, 0)
    IN SeqIf(RGt(f.amount_zscore, 2, 1), "amount")
    \o SeqIf(f.is_new_payee = 1, "new_payee")
    \o SeqIf(avg_amt > 0 /\ amount > 0 /\ amount > 2 * avg_amt, "avg_ratio")
    \o SeqIf(f.is_night_transaction = 1, "night")
    \o SeqIf(f.txn_count_24h > 3, "velocity")
    \o SeqIf(f.is_dormant = 1, "dormant")
    \o SeqIf(f.signature_score < 70, "signature")
    \o SeqIf(RGt(f.amount_to_balance_ratio, 8, 10), "balance")
    \o SeqIf(f.is_above_max = 1, "above_max")
    \o SeqIf(RGt(f.bounce_rate, 1, 10), "bounce")
    \o SeqIf(f.is_weekend = 1, "weekend")
    \o << "normal" >>

Explanations(cheque, profile, f) ==
    LET amount  == OrElse(cheque.amountDigits, 0)
        avg_amt == IF IsNone(profile) THEN 0 ELSE OrElse(Val(profile).avg_transaction_amt, 0)
        fired   ==
            SeqIf(RGt(f.amount_zscore, 2, 1), "amount")
         \o SeqIf(f.is_new_payee = 1, "new_payee")
         \o SeqIf(avg_amt > 0 /\ amount > 0 /\ amount > 2 * avg_amt, "avg_ratio")
         \o SeqIf(f.is_night_transaction = 1, "night")
         \o SeqIf(f.txn_count_24h > 3, "velocity")
         \o SeqIf(f.is_dormant = 1, "dormant")
         \o SeqIf(f.signature_score < 70, "signature")
         \o SeqIf(RGt(f.amount_to_balance_ratio, 8, 10), "balance")
         \o SeqIf(f.is_above_max = 1, "above_max")
         \o SeqIf(RGt(f.bounce_rate, 1, 10), "bounce")
         \o SeqIf(f.is_weekend = 1, "weekend")
    IN IF Len(fired) = 0 THEN << "normal" >> ELSE fired

Factor(factor, severity) == [factor |-> factor, severity |-> severity]

RiskFactors(f) ==
       SeqIf(RGt(f.amount_zscore, 2, 1),
             Factor("unusual_amount", IF RGt(f.amount_zscore, 3, 1) THEN "high" ELSE "medium"))
    \o SeqIf(f.is_new_payee = 1,
             Factor("new_payee", IF RGt(f.amount_to_max_ratio, 3, 2) THEN "high" ELSE "low"))
    \o SeqIf(f.is_night_transaction = 1, Factor("unusual_time", "medium"))
    \o SeqIf(f.txn_count_24h > 3, Factor("high_velocity", "medium"))
    \o SeqIf(f.is_dormant = 1, Factor("dormant_account", "high"))
    \o SeqIf(f.signature_score < 70,
             Factor("signature_mismatch", IF f.signature_score < 50 THEN "high" ELSE "medium"))
    \o SeqIf(RGt(f.amount_to_balance_ratio, 8, 10), Factor("high_balance_ratio", "high"))
    \o SeqIf(f.is_above_max = 1, Factor("exceeds_max", "medium"))
    \o SeqIf(RGt(f.bounce_rate, 1, 10), Factor("high_bounce_rate", "medium"))

SafeFactors(f) ==
       SeqIf(f.bounce_rate.n = 0, "no_bounces")
    \o SeqIf(f.signature_score >= 70, "signature_match")
    \o SeqIf(RLe(f.amount_zscore, 1, 1), "normal_amount")
    \o SeqIf(f.is_new_payee = 0, "known_payee")
    \o SeqIf(f.account_age_days >= 365, "established_account")

\* predict_fraud(cheque_data, signature_score) for request r, with the handle
\* load_model() returned to it
predict_fraud(r, handle) ==
    LET use_ml_model == handle.model # "None"
        profile      == FetchedProfile(r)
        recent_txns  == FetchedHistory(r)
        features     == compute_features_for_cheque(r.cheque, profile, recent_txns,
                                                    r.signature_score, r.hour, r.nowDow)
        rule         == compute_rule_based_score(features, profile)
        ml           == IF use_ml_model THEN Some(MlFraudScore(r.raw.raw100)) ELSE None
        blended100   == IF use_ml_model THEN Blend(Val(ml), rule.score100) ELSE rule.score100
        final10      == FinalBounds(CapScore(normalize_score(blended100), features, profile))
    IN
    IF FeaturesRaise(recent_txns) \/ (use_ml_model /\ r.raw.kind = "raises")
    THEN [status |-> "raised"]
    ELSE
    [ status          |-> "ok",
      modelAvailable  |-> TRUE,
      use_ml_model    |-> use_ml_model,
      scaled          |-> use_ml_model /\ handle.scaler # "None",
      profileFound    |-> ~IsNone(profile),
      features        |-> features,
      ml_fraud_score  |-> ml,
      rule_score100   |-> rule.score100,
      triggered_rules |-> rule.triggered_rules,
      blended100      |-> blended100,
      fraudScore      |-> final10,
      confidence      |-> compute_confidence_score(features,
                              IF use_ml_model THEN << >> ELSE rule.triggered_rules),
      riskLevel       |-> RiskLevel(final10),
      decision        |-> Decision(final10),
      explanations    |-> Explanations(r.cheque, profile, features),
      riskFactors     |-> RiskFactors(features),
      safeFactors     |-> SafeFactors(features) ]

-----------------------------------------------------------------------------
(* The requests, profiles and histories the engine is exercised with *)

MaxHist == 1

RECURSIVE SeqsUpTo(_, _)
SeqsUpTo(S, n) ==
    IF n = 0 THEN { << >> }
    ELSE LET shorter == SeqsUpTo(S, n - 1) IN
         shorter \cup { Append(q, x) : q \in {t \in shorter : Len(t) = n - 1}, x \in S }

\* a row of accounts LEFT JOIN customer_profiles
Profile(stats, balance, bounce_rate, account_age) ==
    [ avg_transaction_amt    |-> stats[1],
      stddev_transaction_amt |-> stats[2],
      max_transaction_amt    |-> stats[3],
      balance                |-> balance,
      bounce_rate            |-> bounce_rate,
      account_age            |-> account_age,
      usual_hours            |-> None,
      account_id             |-> Some(1) ]

Profiles ==
    { Profile(st, bal, br, age) :
        st  \in { << None, None, None >>, << Some(10000), Some(1000), Some(20000) >> },
        bal \in { None, Some(20000) },
        br  \in { Some(0), Some(20) },
        age \in { Some(10), Some(400) } }

Txn(receiver_name, kind, ageH) ==
    [receiver_name |-> receiver_name, created_at |-> [kind |-> kind, ageH |-> ageH]]

\* a payment to alice 200 days ago
HistItems == { Txn("alice", "ok", 4800) }

Histories == SeqsUpTo(HistItems, MaxHist)

Amounts == { None, Some(4000), Some(21000), Some(45000) }

Payees == { Some("alice"), Some("self") }

Dates == { [kind |-> "none", dow |-> 0] }

Signatures == { 35, 65, 70, 85 }

Hours == { 12, 23 }

\* raw estimates in hundredths: below -0.5 and above 0.5 (both clamps of the
\* adapter bind) and one in the model's usual range
Raws == { -60, -10, 80 }

Unused == [kind |-> "unused", raw100 |-> 0]

Cheque(accountNumber, amountDigits, payeeName, date) ==
    [ accountNumber |-> accountNumber, amountDigits |-> amountDigits,
      payeeName |-> payeeName, date |-> date ]

\* a request with an account the store knows, one with an account it does
\* not know (or cannot be reached for), and one without an account number
Requests ==
    { [ cheque |-> Cheque(Some("acc"), a, py, d), signature_score |-> sg,
        dbProfile |-> Some(p), dbHistory |-> h, hour |-> hr, nowDow |-> 2, raw |-> Unused ] :
        a \in Amounts, py \in Payees, d \in Dates, sg \in Signatures,
        p \in Profiles, h \in Histories, hr \in Hours }
    \cup
    { [ cheque |-> Cheque(acc, a, py, d), signature_score |-> sg,
        dbProfile |-> None, dbHistory |-> << >>, hour |-> hr, nowDow |-> 2, raw |-> Unused ] :
        acc \in { None, Some("acc") },
        a \in Amounts, py \in Payees, d \in Dates, sg \in Signatures, hr \in Hours }

\* the model files a process may find on disk
FileSystems ==
    { << "absent", "absent", "absent" >>, << "corrupt", "ok", "ok" >>,
      << "ok", "ok", "ok" >>, << "ok", "absent", "absent" >>,
      << "ok", "corrupt", "ok" >>, << "ok", "ok", "corrupt" >> }

-----------------------------------------------------------------------------
(* The process: model checks and evaluations *)

\* the request threads of the Flask server (app.run serves each request on
\* a thread of its own)
MaxThreads == 2

Threads == 1..MaxThreads

Init ==
    /\ \E fs \in FileSystems :
          /\ modelFile = fs[1]
          /\ scalerFile = fs[2]
          /\ metadataFile = fs[3]
    /\ cache = NoHandle
    /\ req = None
    /\ res = None
    /\ prev = None
    /\ ruleA = None
    /\ ruleB = None
    /\ out = None
    /\ pc = [t \in Threads |-> "idle"]
    /\ local = [t \in Threads |-> NoHandle]
    /\ feat = None
    /\ adapt = None

\* --check, /health: is_model_available()
Check ==
    /\ cache' = load_model(cache, modelFile, scalerFile, metadataFile).cache
    /\ UNCHANGED <<modelFile, scalerFile, metadataFile, req, res, prev, ruleA, ruleB, out, pc, local, feat, adapt>>

\* the estimate the external model gives when predict_fraud invokes it
WithRaw(r, handle, raw100) ==
    IF handle.model # "None" /\ r.raw.kind = "unused"
    THEN [r EXCEPT !.raw = [kind |-> "value", raw100 |-> raw100]]
    ELSE r

\* predict_fraud on a request that arrives while none is being served
Predict ==
    /\ req = None
    /\ \E r \in Requests, raw100 \in Raws :
        LET lm == load_model(cache, modelFile, scalerFile, metadataFile)
            rq == WithRaw(r, lm.ret, raw100)
        IN /\ cache' = lm.cache
           /\ req' = Some(rq)
           /\ res' = Some(predict_fraud(rq, lm.ret))
           /\ prev' = None
           /\ UNCHANGED <<modelFile, scalerFile, metadataFile, ruleA, ruleB, out, pc, local, feat, adapt>>

\* the same request presented once more: predict_fraud on it, again
Repredict ==
    /\ req # None
    /\ \E raw100 \in Raws :
        LET lm == load_model(cache, modelFile, scalerFile, metadataFile)
            rq == WithRaw(Val(req), lm.ret, raw100)
        IN /\ cache' = lm.cache
           /\ req' = Some(rq)
           /\ res' = Some(predict_fraud(rq, lm.ret))
           /\ prev' = res
           /\ UNCHANGED <<modelFile, scalerFile, metadataFile, ruleA, ruleB, out, pc, local, feat, adapt>>

\* the result has been handed to the caller; the process waits for the next
\* request, keeping only the module globals
Respond ==
    /\ req # None
    /\ req' = None
    /\ res' = None
    /\ prev' = None
    /\ UNCHANGED <<modelFile, scalerFile, metadataFile, cache, ruleA, ruleB, out, pc, local, feat, adapt>>

Next == Check \/ Predict \/ Repredict \/ Respond

Spec == Init /\ [][Next]_vars

-----------------------------------------------------------------------------
(* Properties of predict_fraud, checked under Spec *)

Ok(x) == x # None /\ Val(x).status = "ok"

\* what predict_fraud hands back to its caller (the locals left out)
ScoreResult(x) ==
    [ modelAvailable   |-> x.modelAvailable,
      fraudScore       |-> x.fraudScore,
      riskLevel        |-> x.riskLevel,
      decision         |-> x.decision,
      confidence       |-> x.confidence,
      explanations     |-> x.explanations,
      riskFactors      |-> x.riskFactors,
      safeFactors      |-> x.safeFactors,
      profileFound     |-> x.profileFound,
      computedFeatures |-> x.features ]

\* C1: every evaluation that returns gives 0 <= ruleScore <= 100,
\* 0 <= fraudScore <= 100 and 0 <= confidence <= 0.99.
C1_Bounds ==
    Ok(res) =>
        /\ 0 <= Val(res).rule_score100 /\ Val(res).rule_score100 <= 10000
        /\ 0 <= Val(res).fraudScore /\ Val(res).fraudScore <= 1000
        /\ 0 <= Val(res).confidence /\ Val(res).confidence <= 99

\* an evaluation with a profile on the anomaly-model path whose score is
\* positive and whose trust discount is in force
C1_Witness ==
    /\ Ok(res)
    /\ Val(res).use_ml_model
    /\ Val(res).profileFound
    /\ Val(res).fraudScore > 0
    /\ Val(res).rule_score100 > 0
    /\ Val(res).rule_score100 < 100 * SumPoints(Val(res).triggered_rules)

\* C2: with a profile and signature_score >= 70 the final score is at most
\* 45, and at most 35 when also bounce_rate = 0 and account_age_days > 60.
C2_Caps ==
    (Ok(res) /\ Val(res).profileFound /\ Val(res).features.signature_score >= 70) =>
        /\ Val(res).fraudScore <= 450
        /\ (Val(res).features.bounce_rate.n = 0 /\ Val(res).features.account_age_days > 60)
               => Val(res).fraudScore <= 350

\* the 35 cap lowering a blended score above 45 on the anomaly-model path
C2_Witness ==
    /\ Ok(res)
    /\ Val(res).use_ml_model
    /\ Val(res).profileFound
    /\ Val(res).features.signature_score >= 70
    /\ Val(res).features.bounce_rate.n = 0
    /\ Val(res).features.account_age_days > 60
    /\ Val(res).blended100 > 4500
    /\ Val(res).fraudScore = 350

\* the cap in force for an evaluation, in tenths (100 when none applies)
CapInForce(x) ==
    IF x.profileFound /\ x.features.signature_score >= 70
    THEN (IF x.features.bounce_rate.n = 0 /\ x.features.account_age_days > 60
          THEN 350 ELSE 450)
    ELSE 1000

\* C3 as stated: without a model the final score is the rule score itself,
\* only capped.
C3_ExactlyRuleScore ==
    (Ok(res) /\ ~Val(res).use_ml_model) =>
        Val(res).fraudScore * 10 = Min(Val(res).rule_score100, CapInForce(Val(res)) * 10)

\* C3 amended: without a model the final score is the rule score rounded to
\* one decimal (a nearest tenth), only capped.
C3_RoundedRuleScore ==
    (Ok(res) /\ ~Val(res).use_ml_model) =>
        \E t \in 0..1000 :
            /\ Abs(10 * t - Val(res).rule_score100) <= 5
            /\ Val(res).fraudScore = Min(t, CapInForce(Val(res)))

\* a rule-only evaluation whose rule score has a second decimal
C3_Witness ==
    /\ Ok(res)
    /\ ~Val(res).use_ml_model
    /\ Val(res).rule_score100 % 10 # 0
    /\ Val(res).fraudScore < CapInForce(Val(res))

\* C4: with an anomaly score the pre-cap blended score is the minimum of
\* 0.7 * mlFraudScore and ruleScore: no larger than either, and one of them.
C4_StrictMin ==
    (Ok(res) /\ Val(res).use_ml_model) =>
        LET ml70 == Val(Val(res).ml_fraud_score) * 70 IN
        /\ Val(res).blended100 <= ml70
        /\ Val(res).blended100 <= Val(res).rule_score100
        /\ Val(res).blended100 \in { ml70, Val(res).rule_score100 }

\* both scores positive and the dampened ML score the smaller one
C4_Witness ==
    /\ Ok(res)
    /\ Val(res).use_ml_model
    /\ Val(Val(res).ml_fraud_score) > 0
    /\ Val(Val(res).ml_fraud_score) * 70 < Val(res).rule_score100
    /\ Val(res).blended100 = Val(Val(res).ml_fraud_score) * 70

\* C5: tier and decision follow from the final score by the fixed table.
C5_Table ==
    Ok(res) =>
        LET s == Val(res).fraudScore
            td == << Val(res).riskLevel, Val(res).decision >>
        IN /\ (s >= 700) => td = << "critical", "reject" >>
           /\ (s >= 500 /\ s < 700) => td = << "high", "review" >>
           /\ (s >= 300 /\ s < 500) => td = << "medium", "review" >>
           /\ (s < 300) => td = << "low", "approve" >>

\* a final score exactly on the critical threshold
C5_Witness ==
    /\ Ok(res)
    /\ Val(res).fraudScore = 700
    /\ Val(res).riskLevel = "critical"
    /\ Val(res).decision = "reject"

\* C6: two evaluations of the same request in one process return the same
\* ScoreResult.
C6_Deterministic ==
    (Ok(prev) /\ Ok(res)) => ScoreResult(Val(prev)) = ScoreResult(Val(res))

\* Scenario A: amount 10000, no profile, no history, signatureScore 85,
\* rule-only, a payee that is no trusted alias, processed in the daytime
ScenarioA(r, x) ==
    /\ ChequeAmount(r.cheque) = 10000
    /\ IsNone(FetchedProfile(r))
    /\ FetchedHistory(r) = << >>
    /\ r.signature_score = 85
    /\ r.cheque.payeeName = Some("alice")
    /\ r.hour = 12
    /\ ~x.use_ml_model

\* C9: in scenario A the result is low/approve and the score is the rule
\* score made of the new_payee rule's 3 points alone.
C9_ScenarioA ==
    (Ok(res) /\ ScenarioA(Val(req), Val(res))) =>
        /\ Val(res).riskLevel = "low"
        /\ Val(res).decision = "approve"
        /\ Val(res).fraudScore <= 100
        /\ Val(res).triggered_rules = << Trigger("new_payee", 3) >>
        /\ Val(res).fraudScore = 30

\* the explanation conditions whose text mentions "standard deviations"
StdDevExplanations == { "amount" }

\* Scenario B: the profile's mean and stddev make amount_zscore equal 11
ScenarioB(x) == REq(x.features.amount_zscore, Rat(11, 1))

\* C10 as stated: in scenario B extreme_amount fires with 25 points, the
\* tier is at least medium, and an explanation mentions standard deviations.
C10_ScenarioB ==
    (Ok(res) /\ ScenarioB(Val(res))) =>
        /\ Trigger("extreme_amount", 25) \in SeqRange(Val(res).triggered_rules)
        /\ Val(res).riskLevel \in { "medium", "high", "critical" }
        /\ SeqRange(Val(res).explanations) \cap StdDevExplanations # {}

\* C10 amended: in scenario B extreme_amount fires with 25 points and an
\* explanation mentions standard deviations; the tier is at least medium
\* exactly when the final score reaches 30.
C10_ScenarioBAmended ==
    (Ok(res) /\ ScenarioB(Val(res))) =>
        /\ Trigger("extreme_amount", 25) \in SeqRange(Val(res).triggered_rules)
        /\ SumPoints(Val(res).triggered_rules) >= 25
        /\ SeqRange(Val(res).explanations) \cap StdDevExplanations # {}
        /\ (Val(res).riskLevel \in { "medium", "high", "critical" })
               <=> (Val(res).fraudScore >= 300)

\* scenario B on the rule-only path with a final score below 30
C10_Witness ==
    /\ Ok(res)
    /\ ScenarioB(Val(res))
    /\ ~Val(res).use_ml_model
    /\ Val(res).riskLevel = "low"
    /\ Trigger("extreme_amount", 25) \in SeqRange(Val(res).triggered_rules)

\* C11: with the anomaly model missing, predict_fraud returns (it does not
\* fail), its score is the rule-based one, and the result's modelAvailable
\* flag says that the model was not available.
C11_MissingModelReported ==
    (res # None /\ modelFile = "absent") =>
        /\ Ok(res)
        /\ ~Val(res).use_ml_model
        /\ Val(res).blended100 = Val(res).rule_score100
        /\ Val(res).modelAvailable = FALSE

-----------------------------------------------------------------------------
(* compute_rule_based_score called directly, on pairs of feature vectors *)

\* the z-scores, on both sides of zero and of every tier of rule 1
Zscores ==
    { Rat(0 - 11, 1), Rat(0 - 6, 1), Rat(0 - 5, 2), Rat(0, 1), Rat(2, 1), Rat(5, 2),
      Rat(3, 1), Rat(4, 1), Rat(5, 1), Rat(6, 1), Rat(10, 1), Rat(11, 1) }

\* the signature scores, on both sides of every tier of rule 8 and of the
\* trust discount
SignatureScores == { 0, 39, 40, 59, 60, 69, 70, 79, 80, 100 }

\* a feature vector as a caller of the rule engine may build it
FeatureVector(z, sig, bal, age, bounce) ==
    [ amount_zscore |-> z, amount_to_max_ratio |-> Rat(5, 2),
      amount_to_balance_ratio |-> bal, is_above_max |-> 1,
      is_new_payee |-> 1, payee_frequency |-> 0, unique_payee_ratio |-> Rat(1, 1),
      hour_of_day |-> 12, day_of_week |-> 2, is_unusual_hour |-> 0, is_weekend |-> 0,
      is_night_transaction |-> 0,
      txn_count_24h |-> 0, txn_count_7d |-> 0, days_since_last_txn |-> 0, is_dormant |-> 0,
      account_age_days |-> age, bounce_rate |-> bounce, avg_balance |-> 100000,
      signature_score |-> sig, payee_name |-> Some("alice") ]

\* vectors of a night transaction on a dormant account, with every other
\* category in its highest tier
WorstVectors ==
    { [FeatureVector(Rat(11, 1), 0, Rat(3, 2), 10, Rat(20, 100)) EXCEPT
           !.hour_of_day = 23, !.is_unusual_hour = 1, !.is_night_transaction = 1,
           !.is_dormant = 1, !.days_since_last_txn = d] : d \in { 100, 200 } }

FeatureVectors ==
    { FeatureVector(z, sig, bal, age, bounce) :
        z \in Zscores, sig \in SignatureScores,
        bal \in { Rat(1, 2), Rat(3, 2) }, age \in { 10, 100, 400 },
        bounce \in { Rat(0, 100), Rat(20, 100) } }
    \cup WorstVectors

RuleCall(f, profile) ==
    [ features |-> f, profile |-> profile, out |-> compute_rule_based_score(f, profile) ]

InitRule ==
    /\ modelFile = "absent"
    /\ scalerFile = "absent"
    /\ metadataFile = "absent"
    /\ cache = NoHandle
    /\ req = None
    /\ res = None
    /\ prev = None
    /\ ruleA = None
    /\ ruleB = None
    /\ out = None
    /\ pc = [t \in Threads |-> "idle"]
    /\ local = [t \in Threads |-> NoHandle]
    /\ feat = None
    /\ adapt = None

\* compute_rule_based_score(features, profile)
RuleEval ==
    /\ ruleA = None
    /\ \E f \in FeatureVectors, profile \in { None, Some("profile") } :
          ruleA' = Some(RuleCall(f, profile))
    /\ ruleB' = None
    /\ UNCHANGED <<modelFile, scalerFile, metadataFile, cache, req, res, prev, out, pc, local, feat, adapt>>

\* a second call, same profile, the vector changed in amount_zscore only
VaryZscore ==
    /\ ruleA # None
    /\ ruleB = None
    /\ \E z \in Zscores :
          ruleB' = Some(RuleCall([Val(ruleA).features EXCEPT !.amount_zscore = z],
                                 Val(ruleA).profile))
    /\ UNCHANGED <<modelFile, scalerFile, metadataFile, cache, req, res, prev, ruleA, out, pc, local, feat, adapt>>

\* a second call, same profile, the vector changed in signature_score only
VarySignature ==
    /\ ruleA # None
    /\ ruleB = None
    /\ \E sig \in SignatureScores :
          ruleB' = Some(RuleCall([Val(ruleA).features EXCEPT !.signature_score = sig],
                                 Val(ruleA).profile))
    /\ UNCHANGED <<modelFile, scalerFile, metadataFile, cache, req, res, prev, ruleA, out, pc, local, feat, adapt>>

\* both calls have returned
RuleDone ==
    /\ ruleA # None
    /\ ruleA' = None
    /\ ruleB' = None
    /\ UNCHANGED <<modelFile, scalerFile, metadataFile, cache, req, res, prev, out, pc, local, feat, adapt>>

NextRule == RuleEval \/ VaryZscore \/ VarySignature \/ RuleDone

SpecRule == InitRule /\ [][NextRule]_vars

\* the two calls were made on the same profile and on vectors that agree
\* in every feature but the named one
DifferOnlyInZscore ==
    /\ ruleA # None /\ ruleB # None
    /\ Val(ruleA).profile = Val(ruleB).profile
    /\ [Val(ruleB).features EXCEPT !.amount_zscore = Val(ruleA).features.amount_zscore]
           = Val(ruleA).features

DifferOnlyInSignature ==
    /\ ruleA # None /\ ruleB # None
    /\ Val(ruleA).profile = Val(ruleB).profile
    /\ [Val(ruleB).features EXCEPT !.signature_score = Val(ruleA).features.signature_score]
           = Val(ruleA).features

\* r <= s for fractions with positive denominators
RLeq(r, s) == r.n * s.d <= s.n * r.d

\* C7 as stated: the vector with the larger amount_zscore never gets the
\* smaller ruleScore.
C7_MonotoneInZscore ==
    (DifferOnlyInZscore
        /\ RLeq(Val(ruleA).features.amount_zscore, Val(ruleB).features.amount_zscore))
    => Val(ruleA).out.score100 <= Val(ruleB).out.score100

\* what the rule engine does guarantee: the vector with the larger absolute
\* amount_zscore never gets the smaller ruleScore.
C7_MonotoneInAbsZscore ==
    (DifferOnlyInZscore
        /\ RLeq(RAbs(Val(ruleA).features.amount_zscore),
                RAbs(Val(ruleB).features.amount_zscore)))
    => Val(ruleA).out.score100 <= Val(ruleB).out.score100

\* a negative z-score replaced by a positive one of larger magnitude, the
\* score going up with it
C7_Witness ==
    /\ DifferOnlyInZscore
    /\ Val(ruleA).features.amount_zscore.n < 0
    /\ Val(ruleB).features.amount_zscore.n > 0
    /\ RLeq(RAbs(Val(ruleA).features.amount_zscore), RAbs(Val(ruleB).features.amount_zscore))
    /\ Val(ruleA).out.score100 < Val(ruleB).out.score100

\* C8: the vector with the smaller signature_score never gets the smaller
\* ruleScore.
C8_MonotoneInSignature ==
    (DifferOnlyInSignature
        /\ Val(ruleB).features.signature_score <= Val(ruleA).features.signature_score)
    => Val(ruleA).out.score100 <= Val(ruleB).out.score100

\* a lower signature score that costs both rule points and trust discount
C8_Witness ==
    /\ DifferOnlyInSignature
    /\ Val(ruleA).profile # None
    /\ Val(ruleB).features.signature_score < Val(ruleA).features.signature_score
    /\ Val(ruleB).out.discount < Val(ruleA).out.discount
    /\ SumPoints(Val(ruleB).out.triggered_rules) > SumPoints(Val(ruleA).out.triggered_rules)
    /\ Val(ruleA).out.score100 < Val(ruleB).out.score100

-----------------------------------------------------------------------------
(* CLI & SERVER: the entry points of main(), with collaborators that may fail *)

\* get_account_profile: the row found, None when there is none, None when
\* the database call raises (the except clause)
get_account_profile(call) == IF call.kind = "row" THEN Some(call.row) ELSE None

\* get_recent_transactions: the rows, [] when the database call raises
get_recent_transactions(call) == IF call.kind = "rows" THEN call.rows ELSE << >>

\* a profile of an established account without bounces
GoodProfile ==
    Profile(<< Some(10000), Some(1000), Some(20000) >>, Some(20000), Some(0), Some(400))

\* a profile of an account opened today, without statistics
FreshProfile == Profile(<< None, None, None >>, None, Some(20), Some(0))

ProfileCalls ==
    { [kind |-> "raises", row |-> None], [kind |-> "norow", row |-> None],
      [kind |-> "row", row |-> GoodProfile], [kind |-> "row", row |-> FreshProfile] }

\* four payments to alice in the last day
BusyDay == [i \in 1..4 |-> Txn("alice", "ok", 12)]

HistoryCalls ==
    { [kind |-> "raises", rows |-> << >>], [kind |-> "rows", rows |-> << >>],
      [kind |-> "rows", rows |-> << Txn("alice", "ok", 12) >>],
      [kind |-> "rows", rows |-> BusyDay] }

\* scaler.transform / model.score_samples: an estimate, or an exception
ModelCalls == { [kind |-> "value", raw100 |-> 0 - 10], [kind |-> "raises", raw100 |-> 0] }

\* the cheque_data of a request, with what each collaborator does when
\* predict_fraud calls it
MainRequests ==
    { [ cheque |-> Cheque(Some("acc"), a, Some("alice"), [kind |-> "none", dow |-> 0]),
        signature_score |-> sg,
        profileCall |-> pcall, historyCall |-> hcall,
        dbProfile |-> get_account_profile(pcall),
        dbHistory |-> get_recent_transactions(hcall),
        hour |-> h, nowDow |-> dow, raw |-> mcall ] :
        a \in { Some(4000), Some(45000) }, sg \in { 0, 35, 85 },
        h \in { 12, 23 }, dow \in { 2, 6 },
        pcall \in ProfileCalls, hcall \in HistoryCalls, mcall \in ModelCalls }

\* what reaches an entry point: text that is not JSON ("malformed"), JSON
\* that is neither an object nor null ("notobject"), JSON null ("null"), no
\* input at all ("empty"), or an object (the request)
Payload(kind, body) == [kind |-> kind, body |-> body]

Payloads ==
    { Payload(k, None) : k \in { "malformed", "notobject", "null", "empty" } }
        \cup { Payload("object", Some(r)) : r \in MainRequests }

\* the request made of the object {}: no account, every field defaulted
DefaultRequest ==
    [ cheque |-> Cheque(None, None, None, [kind |-> "none", dow |-> 0]),
      signature_score |-> 85,
      profileCall |-> [kind |-> "norow", row |-> None],
      historyCall |-> [kind |-> "rows", rows |-> << >>],
      dbProfile |-> None, dbHistory |-> << >>,
      hour |-> 12, nowDow |-> 2, raw |-> [kind |-> "value", raw100 |-> 0 - 10] ]

ErrorResult(message) == [error |-> message]

\* predict_fraud called by an entry point that catches what it raises
\* (except Exception): the printed result, the evaluation, the globals
Evaluate(payload, c, mf, sf, mdf, message) ==
    LET lm == load_model(c, mf, sf, mdf)
        x  == predict_fraud(Val(payload.body), lm.ret)
    IN [ out   |-> IF x.status = "ok" THEN ScoreResult(x) ELSE ErrorResult(message),
         res   |-> Some(x),
         cache |-> lm.cache ]

\* mutant of main_predict: text that does not parse is scored as the object
\* {} instead of being refused
main_predict_lenient(payload, c, mf, sf, mdf) ==
    IF payload.kind = "malformed"
    THEN Evaluate(Payload("object", Some(DefaultRequest)), c, mf, sf, mdf, "Prediction failed")
    ELSE IF payload.kind \in { "notobject", "null" }
    THEN [out |-> ErrorResult("Prediction failed"), res |-> None, cache |-> c]
    ELSE Evaluate(payload, c, mf, sf, mdf, "Prediction failed")

\* main() with --predict <payload>: json.loads raises JSONDecodeError on
\* text that is not JSON; cheque_data.pop raises on a value that is no object
main_predict(payload, c, mf, sf, mdf) ==
    IF payload.kind = "malformed"
    THEN [out |-> ErrorResult("Invalid JSON"), res |-> None, cache |-> c]
    ELSE IF payload.kind \in { "notobject", "null" }
    THEN [out |-> ErrorResult("Prediction failed"), res |-> None, cache |-> c]
    ELSE Evaluate(payload, c, mf, sf, mdf, "Prediction failed")

\* main() reading the payload from stdin
main_stdin(payload, c, mf, sf, mdf) ==
    IF payload.kind = "empty"
    THEN [ out   |-> [modelAvailable |-> is_model_available(c, mf, sf, mdf)],
           res   |-> None,
           cache |-> load_model(c, mf, sf, mdf).cache ]
    ELSE IF payload.kind \in { "malformed", "notobject", "null" }
    THEN [out |-> ErrorResult("str(e)"), res |-> None, cache |-> c]
    ELSE Evaluate(payload, c, mf, sf, mdf, "str(e)")

\* the /predict route of the Flask server on the body request.get_json()
\* returned: nothing is caught around data.get and predict_fraud
main_route(payload, c, mf, sf, mdf) ==
    IF payload.kind = "null"
    THEN [out |-> ErrorResult("No data provided"), res |-> None, cache |-> c]
    ELSE IF payload.kind = "notobject"
    THEN [out |-> [raised |-> "AttributeError"], res |-> None, cache |-> c]
    ELSE LET lm == load_model(c, mf, sf, mdf)
             x  == predict_fraud(Val(payload.body), lm.ret)
         IN [ out   |-> IF x.status = "ok" THEN ScoreResult(x)
                        ELSE [raised |-> "Exception"],
              res   |-> Some(x),
              cache |-> lm.cache ]

Served(entry, payload) == [entry |-> entry, payload |-> payload]

\* python fraud_prediction.py --predict <payload>
CliPredict ==
    /\ req = None
    /\ \E payload \in Payloads :
        LET m == main_predict(payload, cache, modelFile, scalerFile, metadataFile) IN
        /\ payload.kind # "empty"
        /\ req' = Some(Served("cli", payload))
        /\ res' = m.res
        /\ out' = Some(m.out)
        /\ cache' = m.cache
    /\ UNCHANGED <<modelFile, scalerFile, metadataFile, prev, ruleA, ruleB, pc, local, feat, adapt>>

\* python fraud_prediction.py < payload
StdinPredict ==
    /\ req = None
    /\ \E payload \in Payloads :
        LET m == main_stdin(payload, cache, modelFile, scalerFile, metadataFile) IN
        /\ req' = Some(Served("stdin", payload))
        /\ res' = m.res
        /\ out' = Some(m.out)
        /\ cache' = m.cache
    /\ UNCHANGED <<modelFile, scalerFile, metadataFile, prev, ruleA, ruleB, pc, local, feat, adapt>>

\* POST /predict with a body that request.get_json() could parse
RoutePredict ==
    /\ req = None
    /\ \E payload \in Payloads :
        LET m == main_route(payload, cache, modelFile, scalerFile, metadataFile) IN
        /\ payload.kind \in { "null", "notobject", "object" }
        /\ req' = Some(Served("route", payload))
        /\ res' = m.res
        /\ out' = Some(m.out)
        /\ cache' = m.cache
    /\ UNCHANGED <<modelFile, scalerFile, metadataFile, prev, ruleA, ruleB, pc, local, feat, adapt>>

\* the caller has its answer
Deliver ==
    /\ req # None
    /\ req' = None
    /\ res' = None
    /\ out' = None
    /\ UNCHANGED <<modelFile, scalerFile, metadataFile, cache, prev, ruleA, ruleB,
                   pc, local, feat, adapt>>

NextMain == CliPredict \/ StdinPredict \/ RoutePredict \/ Deliver

SpecMain == Init /\ [][NextMain]_vars

\* the request of the evaluation in hand, when its payload was an object
Evaluated == req # None /\ res # None

\* C12: when the profile fetch, the history fetch or the model invocation
\* raises during an evaluation, predict_fraud still returns a score, made as
\* if that collaborator were missing: no profile, an empty history, the
\* rule-based score.
C12_FailuresDegrade ==
    Evaluated =>
        LET r == Val(Val(req).payload.body)
            x == Val(res)
        IN /\ x.status = "ok"
           /\ (r.profileCall.kind = "raises") => ~x.profileFound
           /\ (r.historyCall.kind = "raises") =>
                  (x.features.txn_count_7d = 0 /\ x.features.is_new_payee = 1)
           /\ (r.raw.kind = "raises") => x.blended100 = x.rule_score100

\* C13: a payload that cannot be parsed gets an error result and nothing
\* else: predict_fraud is not called, no fraudScore, riskLevel or decision
\* is produced, and the globals are left as they were.
C13_MalformedRefused ==
    (out # None /\ Val(req).payload.kind = "malformed") =>
        /\ "error" \in DOMAIN Val(out)
        /\ DOMAIN Val(out) \cap { "fraudScore", "riskLevel", "decision" } = {}
        /\ res = None

\* text that is not JSON given to --predict, answered with the Invalid JSON
\* error
C13_Witness ==
    /\ out # None
    /\ Val(req) = Served("cli", Payload("malformed", None))
    /\ Val(out) = ErrorResult("Invalid JSON")
    /\ res = None

-----------------------------------------------------------------------------
(* predict_fraud on several request threads: load_model statement by        *)
(* statement on the shared globals, then the scoring with what it returned *)

\* the handle load_model builds from the files when nothing interferes
LoadedHandle(mf, sf, mdf) == load_model(NoHandle, mf, sf, mdf).ret

\* a request thread enters predict_fraud and calls load_model()
Enter(t) ==
    /\ pc[t] = "idle"
    /\ pc' = [pc EXCEPT ![t] = "check"]
    /\ local' = [local EXCEPT ![t] = NoHandle]
    /\ UNCHANGED <<modelFile, scalerFile, metadataFile, cache, req, res, prev,
                   ruleA, ruleB, out, feat, adapt>>

\* if _model is not None: return _model, _scaler, _metadata
\* if not os.path.exists(model_path): return None, None, None
CheckCached(t) ==
    /\ pc[t] = "check"
    /\ IF cache.model # "None"
       THEN /\ local' = [local EXCEPT ![t] = cache]
            /\ pc' = [pc EXCEPT ![t] = "score"]
       ELSE IF modelFile = "absent"
       THEN /\ local' = [local EXCEPT ![t] = NoHandle]
            /\ pc' = [pc EXCEPT ![t] = "score"]
       ELSE /\ local' = local
            /\ pc' = [pc EXCEPT ![t] = "load_model"]
    /\ UNCHANGED <<modelFile, scalerFile, metadataFile, cache, req, res, prev,
                   ruleA, ruleB, out, feat, adapt>>

\* _model = joblib.load(model_path)
LoadModelFile(t) ==
    /\ pc[t] = "load_model"
    /\ IF modelFile = "corrupt"
       THEN /\ cache' = cache
            /\ local' = [local EXCEPT ![t] = NoHandle]
            /\ pc' = [pc EXCEPT ![t] = "score"]
       ELSE /\ cache' = [cache EXCEPT !.model = "loaded"]
            /\ local' = local
            /\ pc' = [pc EXCEPT ![t] = "load_scaler"]
    /\ UNCHANGED <<modelFile, scalerFile, metadataFile, req, res, prev,
                   ruleA, ruleB, out, feat, adapt>>

\* _scaler = joblib.load(scaler_path) if os.path.exists(scaler_path) else None
LoadScalerFile(t) ==
    /\ pc[t] = "load_scaler"
    /\ IF scalerFile = "corrupt"
       THEN /\ cache' = cache
            /\ local' = [local EXCEPT ![t] = NoHandle]
            /\ pc' = [pc EXCEPT ![t] = "score"]
       ELSE /\ cache' = [cache EXCEPT !.scaler =
                            IF scalerFile = "ok" THEN "loaded" ELSE "None"]
            /\ local' = local
            /\ pc' = [pc EXCEPT ![t] = "load_metadata"]
    /\ UNCHANGED <<modelFile, scalerFile, metadataFile, req, res, prev,
                   ruleA, ruleB, out, feat, adapt>>

\* _metadata = joblib.load(metadata_path) if os.path.exists(metadata_path) else {}
\* return _model, _scaler, _metadata
LoadMetadataFile(t) ==
    /\ pc[t] = "load_metadata"
    /\ IF metadataFile = "corrupt"
       THEN /\ cache' = cache
            /\ local' = [local EXCEPT ![t] = NoHandle]
       ELSE /\ cache' = [cache EXCEPT !.metadata =
                            IF metadataFile = "ok" THEN "loaded" ELSE "empty"]
            /\ local' = [local EXCEPT ![t] = cache']
    /\ pc' = [pc EXCEPT ![t] = "score"]
    /\ UNCHANGED <<modelFile, scalerFile, metadataFile, req, res, prev,
                   ruleA, ruleB, out, feat, adapt>>

\* the rest of predict_fraud, scoring with the handle load_model returned
Score(t) ==
    /\ pc[t] = "score"
    /\ pc' = [pc EXCEPT ![t] = "idle"]
    /\ local' = [local EXCEPT ![t] = NoHandle]
    /\ UNCHANGED <<modelFile, scalerFile, metadataFile, cache, req, res, prev,
                   ruleA, ruleB, out, feat, adapt>>

NextThreads ==
    \E t \in Threads :
        \/ Enter(t)
        \/ CheckCached(t)
        \/ LoadModelFile(t)
        \/ LoadScalerFile(t)
        \/ LoadMetadataFile(t)
        \/ Score(t)

SpecThreads == Init /\ [][NextThreads]_vars

\* thread t is scoring with the anomaly model
ScoresWithModel(t) == pc[t] = "score" /\ local[t].model # "None"

\* thread t is past the cache test and loading the files
Initializing(t) == pc[t] \in { "load_model", "load_scaler", "load_metadata" }

\* C14: with concurrent evaluations the handle is initialized once (no two
\* threads load it), every evaluation that scores with the model has the
\* model together with the scaler and the metadata the files give, and
\* the handle does not change while an evaluation scores with it.
C14_HandleSafe ==
    /\ [](\A t, u \in Threads : (Initializing(t) /\ Initializing(u)) => t = u)
    /\ [](\A t \in Threads :
            ScoresWithModel(t) => local[t] = LoadedHandle(modelFile, scalerFile, metadataFile))
    /\ [][(\E t \in Threads : ScoresWithModel(t)) => cache' = cache]_vars

\* load_model returns a model to thread t in this step
ReturnsModel(t) ==
    /\ pc[t] # "score"
    /\ pc'[t] = "score"
    /\ local'[t].model # "None"

\* C30: model availability is stable within a process. Once load_model has
\* returned a model (to an evaluation still scoring with it), a load_model
\* call that returns later returns the same model, scaler and metadata, the
\* globals are not loaded again, and is_model_available stays true.
C30_AvailabilityStable ==
    /\ [][\A t, u \in Threads :
            (ScoresWithModel(t) /\ ReturnsModel(u)) => local'[u] = local[t]]_vars
    /\ [][(\E t \in Threads : ScoresWithModel(t)) => cache' = cache]_vars
    /\ [][(cache.model # "None") => (cache'.model # "None")]_vars

-----------------------------------------------------------------------------
(* compute_features_for_cheque called directly, on events, profiles and     *)
(* histories with present, missing and malformed fields                    *)

\* the call as its caller sees it: the feature dictionary, or the exception
\* that datetime.fromisoformat raises on a malformed created_at
FeaturesCall(cheque, profile, recent_txns, signature_score, hour, nowDow) ==
    [ cheque |-> cheque, profile |-> profile, recent_txns |-> recent_txns,
      out |-> IF FeaturesRaise(recent_txns)
              THEN [status |-> "raised"]
              ELSE [status |-> "ok",
                    features |-> compute_features_for_cheque(cheque, profile, recent_txns,
                                                             signature_score, hour, nowDow)] ]

\* a date under the first accepted format (a Saturday), text under neither
\* format, and no date
FeatureDates ==
    { [kind |-> "iso", dow |-> 5], [kind |-> "bad", dow |-> 0], [kind |-> "none", dow |-> 0] }

FeatureCheques ==
    { Cheque(Some("acc"), a, py, d) :
        a \in { None, Some(4000), Some(45000) }, py \in { None, Some("alice") },
        d \in FeatureDates }

\* (avg, stddev, max) of customer_profiles with a part missing or out of
\* range: max NULL, zero and negative; stddev NULL, zero and negative
PartialStatistics ==
    { << Some(10000), Some(1000), None >>, << Some(10000), Some(1000), Some(0) >>,
      << Some(10000), Some(1000), Some(0 - 1) >>, << Some(10000), None, Some(20000) >>,
      << Some(10000), Some(0), Some(20000) >>, << Some(10000), Some(0 - 5), Some(20000) >>,
      << None, Some(1000), Some(20000) >> }

\* partially populated rows: statistics or not, balance NULL / 0 / positive,
\* bounce rate NULL, inside 0..100, above 100 and below 0
FeatureProfiles ==
    { None } \cup
    { Some(Profile(st, bal, br, age)) :
        st  \in { << None, None, None >>, << Some(10000), Some(1000), Some(20000) >> },
        bal \in { None, Some(0), Some(20000) },
        br  \in { None, Some(0), Some(20), Some(150), Some(0 - 5) },
        age \in { None, Some(10) } }
    \cup
    { Some(Profile(st, Some(20000), Some(0), Some(400))) : st \in PartialStatistics }

\* history items: complete and recent, complete and old, without receiver
\* and timestamp, with a created_at that is no ISO timestamp, and one made
\* seven and a half days ago
FeatureHistItems ==
    { Txn("alice", "ok", 12), Txn("bob", "ok", 4800), Txn("", "none", 0),
      Txn("bob", "bad", 0), Txn("carol", "ok", 180) }

FeatureHistories == SeqsUpTo(FeatureHistItems, MaxHist + 1)

InitFeatures ==
    /\ modelFile = "absent"
    /\ scalerFile = "absent"
    /\ metadataFile = "absent"
    /\ cache = NoHandle
    /\ req = None
    /\ res = None
    /\ prev = None
    /\ ruleA = None
    /\ ruleB = None
    /\ out = None
    /\ pc = [t \in Threads |-> "idle"]
    /\ local = [t \in Threads |-> NoHandle]
    /\ feat = None
    /\ adapt = None

\* compute_features_for_cheque(cheque_data, profile, recent_txns, signature_score)
FeaturesEval ==
    /\ feat = None
    /\ \E cheque \in FeatureCheques, profile \in FeatureProfiles,
          recent_txns \in FeatureHistories, hour \in { 3, 12 } :
          feat' = Some(FeaturesCall(cheque, profile, recent_txns, 85, hour, 2))
    /\ UNCHANGED <<modelFile, scalerFile, metadataFile, cache, req, res, prev,
                   ruleA, ruleB, out, pc, local, adapt>>

\* the call has returned
FeaturesDone ==
    /\ feat # None
    /\ feat' = None
    /\ UNCHANGED <<modelFile, scalerFile, metadataFile, cache, req, res, prev,
                   ruleA, ruleB, out, pc, local, adapt>>

NextFeatures == FeaturesEval \/ FeaturesDone

SpecFeatures == InitFeatures /\ [][NextFeatures]_vars

\* C15: compute_features_for_cheque never fails: whatever the event, the
\* profile and the history, it returns a record that has every one of the
\* 20 named features.
C15_NeverFails ==
    feat # None =>
        /\ Val(feat).out.status = "ok"
        /\ Len(FEATURE_COLUMNS) = 20
        /\ \A i \in 1..Len(FEATURE_COLUMNS) :
               FEATURE_COLUMNS[i] \in DOMAIN Val(feat).out.features

\* C20: the bounce_rate feature is the profile's rate divided by 100 and
\* clamped to [0,1] (0 without a profile or a rate), so it lies in [0,1]
\* whatever the profile holds.
C20_BounceRateClamped ==
    (feat # None /\ Val(feat).out.status = "ok") =>
        LET b       == Val(feat).out.features.bounce_rate
            profile == Val(feat).profile
            rate    == IF IsNone(profile) \/ IsNone(Val(profile).bounce_rate)
                       THEN 0 ELSE Val(Val(profile).bounce_rate)
        IN /\ RGe(b, 0, 1) /\ RLe(b, 1, 1)
           /\ REq(b, Rat(Max(0, Min(100, rate)), 100))

-----------------------------------------------------------------------------
(* Properties of compute_rule_based_score, checked under SpecRule *)

\* the discounts the features qualify for, in percent: 5 for a zero bounce
\* rate, 5 for an age above 180 days else 3 above 60, 5 for a signature
\* score of at least 80 else 3 for at least 70; at most 15 together
QualifyingDiscount(f) ==
    Min(15, (IF REq(f.bounce_rate, Rat(0, 1)) THEN 5 ELSE 0)
          + (IF f.account_age_days > 180 THEN 5 ELSE IF f.account_age_days > 60 THEN 3 ELSE 0)
          + (IF f.signature_score >= 80 THEN 5 ELSE IF f.signature_score >= 70 THEN 3 ELSE 0))

\* ruleScore = preDiscountScore * (1 - discount), clamped; in hundredths
DiscountedScore(points, discount) == Max(0, Min(10000, points * (100 - discount)))

\* C16 as stated: in every call the trust discount is what the features
\* qualify for, and ruleScore is the pre-discount score less that discount.
C16_DiscountByFeatures ==
    ruleA # None =>
        LET o == Val(ruleA).out IN
        /\ o.discount = QualifyingDiscount(Val(ruleA).features)
        /\ o.score100 = DiscountedScore(o.points, o.discount)

\* C16 amended: in a call that is given a profile the trust discount is
\* what the features qualify for, in a call without profile it is zero;
\* ruleScore is the pre-discount score less that discount.
C16_DiscountWithProfile ==
    ruleA # None =>
        LET o == Val(ruleA).out IN
        /\ o.discount = IF IsNone(Val(ruleA).profile) THEN 0
                        ELSE QualifyingDiscount(Val(ruleA).features)
        /\ o.score100 = DiscountedScore(o.points, o.discount)

\* a call with a profile, a zero bounce rate (5), an age between 60 and 180
\* days (3) and a signature score between 70 and 80 (3): 11% off a positive
\* score
C16_Witness ==
    /\ ruleA # None
    /\ ~IsNone(Val(ruleA).profile)
    /\ Val(ruleA).features.account_age_days = 100
    /\ Val(ruleA).features.signature_score = 70
    /\ Val(ruleA).out.discount = 11
    /\ Val(ruleA).out.points > 0
    /\ Val(ruleA).out.score100 = Val(ruleA).out.points * 89

\* the category (the rule of the numbered list) a rule id belongs to
RuleCategory(rule) ==
    CASE rule \in { "extreme_amount", "very_high_amount", "high_amount", "moderate_amount" }
             -> "amount"
      [] rule \in { "exceeds_balance", "high_balance_usage" } -> "balance"
      [] rule \in { "exceeds_max", "above_max" } -> "max"
      [] rule = "new_payee" -> "payee"
      [] rule \in { "very_new_account", "new_account" } -> "age"
      [] rule = "night_transaction" -> "time"
      [] rule \in { "long_dormant", "dormant_account" } -> "dormant"
      [] rule \in { "signature_mismatch", "low_signature_confidence",
                    "moderate_signature_confidence" } -> "signature"
      [] rule \in { "high_bounce_rate", "moderate_bounce_rate" } -> "bounce"

\* C19: in one call no two listed triggers belong to the same category (so
\* no rule id is listed twice and no two tiers of a category fire together),
\* and the pre-discount score is the sum of the listed points, at most 100.
C19_OneTierPerCategory ==
    ruleA # None =>
        LET ts == Val(ruleA).out.triggered_rules IN
        /\ \A i, j \in 1..Len(ts) :
               i # j => RuleCategory(ts[i].rule) # RuleCategory(ts[j].rule)
        /\ Val(ruleA).out.points = SumPoints(ts)
        /\ Val(ruleA).out.points <= 100

\* every one of the nine categories in its highest tier: 100 points
C19_Witness ==
    /\ ruleA # None
    /\ Len(Val(ruleA).out.triggered_rules) = 9
    /\ Trigger("exceeds_balance", 15) \in SeqRange(Val(ruleA).out.triggered_rules)
    /\ Val(ruleA).out.points = 100

-----------------------------------------------------------------------------
(* Properties of predict_fraud, checked under Spec (continued) *)

TrustedAliases == { "self", "cash", "self withdrawal" }

\* C17: an evaluation lists the new_payee trigger (3 points) exactly when
\* is_new_payee = 1 and the event's payee name is not a trusted alias.
C17_NewPayeePoints ==
    Ok(res) =>
        LET payee == Val(req).cheque.payeeName
            fires == /\ Val(res).features.is_new_payee = 1
                     /\ ~(payee # None /\ Val(payee) \in TrustedAliases)
        IN fires <=> Trigger("new_payee", 3) \in SeqRange(Val(res).triggered_rules)

-----------------------------------------------------------------------------
(* The confidence of an evaluation, checked under SpecMain *)

\* 0.75 + 0.05 if amount_zscore != 0 + 0.05 if account_age_days > 0
\*      + 0.08 if signature_score > 0, in hundredths
DataConfidence(f) ==
    75 + (IF ~REq(f.amount_zscore, Rat(0, 1)) THEN 5 ELSE 0)
       + (IF f.account_age_days > 0 THEN 5 ELSE 0)
       + (IF f.signature_score > 0 THEN 8 ELSE 0)

\* C18 as stated: with or without the model, confidence is the data
\* confidence plus 0.02 when at least one rule triggered in the evaluation,
\* at most 0.99.
C18_ConfidenceAsStated ==
    Ok(res) =>
        Val(res).confidence =
            Min(99, DataConfidence(Val(res).features)
                      + (IF Len(Val(res).triggered_rules) > 0 THEN 2 ELSE 0))

\* C18 amended: the 0.02 is added only in an evaluation scored without the
\* anomaly model in which at least one rule triggered.
C18_ConfidenceAmended ==
    Ok(res) =>
        Val(res).confidence =
            Min(99, DataConfidence(Val(res).features)
                      + (IF ~Val(res).use_ml_model /\ Len(Val(res).triggered_rules) > 0
                         THEN 2 ELSE 0))

\* an evaluation on the anomaly-model path in which rules triggered: the
\* three data terms, and no 0.02
C18_Witness ==
    /\ Ok(res)
    /\ Val(res).use_ml_model
    /\ Len(Val(res).triggered_rules) > 0
    /\ Val(res).features.amount_zscore.n < 0
    /\ Val(res).confidence = 93

\* the explanation conditions of predict_fraud, in the order of evaluation
ExplanationOrder ==
    << "amount", "new_payee", "avg_ratio", "night", "velocity", "dormant",
       "signature", "balance", "above_max", "bounce", "weekend" >>

\* the condition under which predict_fraud emits explanation id, for cheque
\* c, the fetched profile and the features f
ConditionFired(id, c, profile, f) ==
    CASE id = "amount"    -> f.amount_zscore.n * 1 > 2 * f.amount_zscore.d
      [] id = "new_payee" -> f.is_new_payee = 1
      [] id = "avg_ratio" ->
            /\ ~IsNone(profile)
            /\ ~IsNone(c.amountDigits)
            /\ ~IsNone(Val(profile).avg_transaction_amt)
            /\ Val(Val(profile).avg_transaction_amt) > 0
            /\ Val(c.amountDigits) > 2 * Val(Val(profile).avg_transaction_amt)
      [] id = "night"     -> f.is_night_transaction = 1
      [] id = "velocity"  -> f.txn_count_24h >= 4
      [] id = "dormant"   -> f.is_dormant = 1
      [] id = "signature" -> f.signature_score <= 69
      [] id = "balance"   -> 10 * f.amount_to_balance_ratio.n > 8 * f.amount_to_balance_ratio.d
      [] id = "above_max" -> f.is_above_max = 1
      [] id = "bounce"    -> 10 * f.bounce_rate.n > f.bounce_rate.d
      [] id = "weekend"   -> f.is_weekend = 1

\* C23: the explanations are never empty; they are the single default line
\* exactly when no condition fired; otherwise they hold one line for each
\* condition that fired and nothing else, each once, in the order of
\* evaluation.
C23_Explanations ==
    (Evaluated /\ Ok(res)) =>
        LET r     == Val(Val(req).payload.body)
            x     == Val(res)
            e     == x.explanations
            fired == { i \in 1..Len(ExplanationOrder) :
                         ConditionFired(ExplanationOrder[i], r.cheque,
                                        FetchedProfile(r), x.features) }
        IN /\ Len(e) >= 1
           /\ (e = << "normal" >>) <=> (fired = {})
           /\ (fired # {}) =>
                 /\ Len(e) = Cardinality(fired)
                 /\ \A k \in 1..Len(e) : \E i \in fired : e[k] = ExplanationOrder[i]
                 /\ \A k, l \in 1..Len(e) : \A i, j \in fired :
                       (k < l /\ e[k] = ExplanationOrder[i] /\ e[l] = ExplanationOrder[j])
                           => i < j

\* an evaluation in which nothing fired, answered by the default line alone
C23_Witness ==
    /\ Evaluated /\ Ok(res)
    /\ Val(res).explanations = << "normal" >>
    /\ Val(res).profileFound
    /\ Val(res).features.signature_score = 85

\* an evaluation in which the payee, the hour, the velocity and the weekend
\* conditions fired together
C23_Several ==
    /\ Evaluated /\ Ok(res)
    /\ Len(Val(res).explanations) >= 6
    /\ \E k \in 1..Len(Val(res).explanations) : Val(res).explanations[k] = "velocity"

-----------------------------------------------------------------------------
(* Properties of compute_features_for_cheque, checked under SpecFeatures *)

FeaturesOk == feat # None /\ Val(feat).out.status = "ok"

\* a field of the profile of the call (None without a profile)
ProfileField(field) ==
    IF IsNone(Val(feat).profile) THEN None ELSE Val(Val(feat).profile)[field]

\* C21 as stated: with a positive stddev amount_zscore = (amount-avg)/stddev
\* and amount_to_max_ratio = amount/max, the ratio being 0 when the max is
\* zero, missing or negative; without a positive stddev they are 0 and 1.
C21_AmountFeaturesAsStated ==
    FeaturesOk =>
        LET f      == Val(feat).out.features
            amount == ChequeAmount(Val(feat).cheque)
            avg    == ProfileField("avg_transaction_amt")
            std    == ProfileField("stddev_transaction_amt")
            max    == ProfileField("max_transaction_amt")
        IN IF ~IsNone(std) /\ Val(std) > 0
           THEN /\ REq(f.amount_zscore, Rat(amount - OrElse(avg, 0), Val(std)))
                /\ REq(f.amount_to_max_ratio,
                       IF ~IsNone(max) /\ Val(max) > 0 THEN Rat(amount, Val(max))
                       ELSE Rat(0, 1))
           ELSE /\ REq(f.amount_zscore, Rat(0, 1))
                /\ REq(f.amount_to_max_ratio, Rat(1, 1))

\* C21 amended: with a positive stddev amount_zscore = (amount-avg)/stddev;
\* with a positive or negative stddev amount_to_max_ratio = amount/max for a
\* positive max and 1 for a max that is zero, missing or negative;
\* amount_zscore is 0 for a negative stddev; with no profile or a missing or
\* zero stddev they are 0 and 1.
C21_AmountFeatures ==
    FeaturesOk =>
        LET f      == Val(feat).out.features
            amount == ChequeAmount(Val(feat).cheque)
            avg    == ProfileField("avg_transaction_amt")
            std    == ProfileField("stddev_transaction_amt")
            max    == ProfileField("max_transaction_amt")
        IN IF ~IsNone(std) /\ Val(std) # 0
           THEN /\ REq(f.amount_zscore,
                       IF Val(std) > 0 THEN Rat(amount - OrElse(avg, 0), Val(std))
                       ELSE Rat(0, 1))
                /\ REq(f.amount_to_max_ratio,
                       IF ~IsNone(max) /\ Val(max) > 0 THEN Rat(amount, Val(max))
                       ELSE Rat(1, 1))
           ELSE /\ REq(f.amount_zscore, Rat(0, 1))
                /\ REq(f.amount_to_max_ratio, Rat(1, 1))

\* a profile with a positive stddev and a negative max: a z-score of 35 and
\* a ratio of 1
C21_Witness ==
    /\ FeaturesOk
    /\ ProfileField("stddev_transaction_amt") = Some(1000)
    /\ ProfileField("max_transaction_amt") = Some(0 - 1)
    /\ REq(Val(feat).out.features.amount_zscore, Rat(35, 1))
    /\ REq(Val(feat).out.features.amount_to_max_ratio, Rat(1, 1))

\* the timestamps (hours before now) of the history items that have one
TimedAges == [i \in 1..Len(Timed(Val(feat).recent_txns)) |->
                 Timed(Val(feat).recent_txns)[i].created_at.ageH]

\* C22: txn_count_24h is the number of items made within the last 24 hours
\* and txn_count_7d the number made within the last 7 days (168 hours); no
\* item older than 7 days is counted.
C22_ExactCounts ==
    FeaturesOk =>
        /\ Val(feat).out.features.txn_count_24h
               = Cardinality({ i \in DOMAIN TimedAges : TimedAges[i] <= 24 })
        /\ Val(feat).out.features.txn_count_7d
               = Cardinality({ i \in DOMAIN TimedAges : TimedAges[i] <= 168 })

\* C28: whenever is_above_max = 1, amount_to_max_ratio > 1 as well, and an
\* amount of more than twice the profile's max reaches the exceeds_max tier
\* of the rule engine.
C28_AboveMaxHasRatio ==
    FeaturesOk =>
        LET f      == Val(feat).out.features
            amount == ChequeAmount(Val(feat).cheque)
            max    == ProfileField("max_transaction_amt")
        IN /\ (f.is_above_max = 1) => RGt(f.amount_to_max_ratio, 1, 1)
           /\ (~IsNone(max) /\ Val(max) > 0 /\ amount > 2 * Val(max))
                  => MaxRule(f) = << Trigger("exceeds_max", 10) >>

-----------------------------------------------------------------------------
(* Properties of the evidence lists and the caps, checked under Spec *)

AmountRuleNames == { "extreme_amount", "very_high_amount", "high_amount", "moderate_amount" }

\* C25: whenever an amount-anomaly rule triggers in an evaluation, the
\* riskFactors contain unusual_amount and the safeFactors do not contain
\* normal_amount.
C25_AmountEvidenceAgrees ==
    Ok(res) =>
        LET x == Val(res) IN
        (\E k \in 1..Len(x.triggered_rules) : x.triggered_rules[k].rule \in AmountRuleNames)
            => /\ \E k \in 1..Len(x.riskFactors) : x.riskFactors[k].factor = "unusual_amount"
               /\ \A k \in 1..Len(x.safeFactors) : x.safeFactors[k] # "normal_amount"

\* C26: for an account with a profile and signature_score >= 70 the decision
\* is never reject and the riskLevel is never high or critical, whatever the
\* anomaly estimate and the other features.
C26_GoodSignatureCapped ==
    Ok(res) =>
        LET x == Val(res) IN
        (x.profileFound /\ x.features.signature_score >= 70)
            => /\ x.decision # "reject"
               /\ x.riskLevel \notin { "high", "critical" }

\* a profiled account with a matching signature, an amount above the balance
\* and an extreme z-score: a blended score above 50 capped to 45
C26_Witness ==
    /\ Ok(res)
    /\ Val(res).profileFound
    /\ Val(res).features.signature_score >= 70
    /\ Val(res).blended100 >= 5000
    /\ RGt(Val(res).features.amount_to_balance_ratio, 1, 1)
    /\ RGt(Val(res).features.amount_zscore, 10, 1)
    /\ Val(res).fraudScore = 450
    /\ Val(res).riskLevel = "medium"
    /\ Val(res).decision = "review"

\* C27: the anomaly model can only lower the result. With or without the
\* model, fraudScore never exceeds the rule score rounded to one decimal;
\* when no rule triggered the rule score is 0, and with a rule score of 0
\* fraudScore is 0 and the decision is approve, for every raw estimate.
C27_ModelOnlyLowers ==
    Ok(res) =>
        LET x == Val(res) IN
        /\ x.fraudScore <= normalize_score(x.rule_score100)
        /\ (Len(x.triggered_rules) = 0) => x.rule_score100 = 0
        /\ (x.rule_score100 = 0) => (x.fraudScore = 0 /\ x.decision = "approve")

\* no rule triggered and the model calls the transaction as anomalous as it
\* can (ML fraud score 100): score 0, approve
C27_Witness ==
    /\ Ok(res)
    /\ Val(res).use_ml_model
    /\ Len(Val(res).triggered_rules) = 0
    /\ Val(res).ml_fraud_score = Some(100)
    /\ Val(res).fraudScore = 0
    /\ Val(res).decision = "approve"

\* the model lowering a score the rules put above it
C27_Lowered ==
    /\ Ok(res)
    /\ Val(res).use_ml_model
    /\ Val(res).blended100 < Val(res).rule_score100
    /\ Val(res).fraudScore < normalize_score(Val(res).rule_score100)

\* the first load_model call of the process ends in its except branch
LoadRaises ==
    \/ modelFile = "corrupt"
    \/ modelFile = "ok" /\ (scalerFile = "corrupt" \/ metadataFile = "corrupt")

\* C29: when load_model fails with an exception while loading the model,
\* the scaler or the metadata, the cached handle stays unset: no later call
\* returns a model whose scaler or metadata failed to load, and no
\* evaluation is scored with one.
C29_FailedLoadCachesNothing ==
    LoadRaises =>
        /\ cache = NoHandle
        /\ load_model(cache, modelFile, scalerFile, metadataFile).ret = NoHandle
        /\ Ok(res) => ~Val(res).use_ml_model

-----------------------------------------------------------------------------
(* The anomaly score adapter applied to raw estimates of the external model *)

\* raw estimates in hundredths, on both sides of -0.5 and of 0.5
RawEstimates == { 0 - 120, 0 - 60, 0 - 51, 0 - 50, 0 - 49, 0 - 25, 0 - 10, 0,
                  10, 49, 50, 51, 80, 120 }

\* conversions kept side by side for comparison
MaxCalls == 2

\* one conversion: the estimate, the anomaly score of the training script
\* (hundredths) and the ML fraud score of predict_fraud (points)
AdapterCall(raw100) ==
    [ raw100 |-> raw100,
      anomaly_score |-> predict_anomaly_score(raw100),
      ml_fraud_score |-> MlFraudScore(raw100) ]

InitAdapter ==
    /\ modelFile = "absent"
    /\ scalerFile = "absent"
    /\ metadataFile = "absent"
    /\ cache = NoHandle
    /\ req = None
    /\ res = None
    /\ prev = None
    /\ ruleA = None
    /\ ruleB = None
    /\ out = None
    /\ pc = [t \in Threads |-> "idle"]
    /\ local = [t \in Threads |-> NoHandle]
    /\ feat = None
    /\ adapt = << >>

\* raw_score = model.score_samples(X_scaled)[0], converted
Convert ==
    /\ Len(adapt) < MaxCalls
    /\ \E raw100 \in RawEstimates : adapt' = Append(adapt, AdapterCall(raw100))
    /\ UNCHANGED <<modelFile, scalerFile, metadataFile, cache, req, res, prev,
                   ruleA, ruleB, out, pc, local, feat>>

\* the conversions have been used
Forget ==
    /\ Len(adapt) > 0
    /\ adapt' = << >>
    /\ UNCHANGED <<modelFile, scalerFile, metadataFile, cache, req, res, prev,
                   ruleA, ruleB, out, pc, local, feat>>

NextAdapter == Convert \/ Forget

SpecAdapter == InitAdapter /\ [][NextAdapter]_vars

\* C24: the adapter gives clamp(0.5 - raw, 0, 1) * 100: a score in [0,100],
\* 0 for raw >= 0.5, 100 for raw <= -0.5, 100 * (0.5 - raw) in between, and
\* of two estimates the larger never gets the larger score.
C24_Adapter ==
    /\ \A i \in 1..Len(adapt) :
          LET c == adapt[i] IN
          /\ 0 <= c.ml_fraud_score /\ c.ml_fraud_score <= 100
          /\ (c.raw100 >= 50) => c.ml_fraud_score = 0
          /\ (c.raw100 <= 0 - 50) => c.ml_fraud_score = 100
          /\ (0 - 50 < c.raw100 /\ c.raw100 < 50) => c.ml_fraud_score = 50 - c.raw100
          /\ c.ml_fraud_score = c.anomaly_score
    /\ \A i, j \in 1..Len(adapt) :
          (adapt[i].raw100 <= adapt[j].raw100)
              => adapt[i].ml_fraud_score >= adapt[j].ml_fraud_score

\* an estimate just below -0.5 (score 100), then one just above 0.5 (score
\* 0, the lower clamp binding)
C24_Witness ==
    /\ Len(adapt) >= 2
    /\ adapt[1].raw100 = 0 - 51 /\ adapt[1].ml_fraud_score = 100
    /\ adapt[2].raw100 = 51 /\ adapt[2].ml_fraud_score = 0

=============================================================================
